---- MODULE Spec2Model ----
(***************************************************************************)
(* Blog-post feed to README pipeline: update_blog.py (direct XML           *)
(* traversal, "strict" no-marker policy) and update_blog_posts.py          *)
(* (feedparser, "permissive" no-marker policy).                            *)
(*                                                                         *)
(* Text is a sequence of tokens.  The two markers, the heading literal,    *)
(* the newline and the backslash are tokens of their own; the remaining    *)
(* tokens stand for pieces of text that contain none of them.              *)
(***************************************************************************)
EXTENDS Integers, Sequences, FiniteSets, TLC

VARIABLES
    variant,          \* "strict" (update_blog.py) or "permissive" (update_blog_posts.py)
    pc,               \* position of the running function
    caller,           \* who called update_readme_with_blog_posts: "main" or "direct"
    doc,              \* README.md on disk: [exists, text]
    doc0,             \* README.md as it was before the first run (history)
    response,         \* what the HTTP collaborator answered to requests.get
    max_posts,        \* parameter of fetch_latest_blog_posts
    posts,            \* the post list (fetch's return value / update's argument)
    fetchExc,         \* the exception class fetch's handlers caught ("none" if none)
    propagated,       \* TRUE iff an exception left fetch_latest_blog_posts
    content,          \* local of update_readme_with_blog_posts
    blog_section,     \* local of update_readme_with_blog_posts
    updated_content,  \* local of update_readme_with_blog_posts
    result,           \* return value of update_readme_with_blog_posts
    log,              \* events of the current run, in order (history)
    runs,             \* number of runs started so far
    prevPosts,        \* post list of the previous run (history)
    prevDoc,          \* README.md as the previous run left it (history)
    inserted,         \* how often the no-marker branch added a region (history)
    raw,              \* pubDate text handed to the date normalisation
    date_str,         \* local of the date normalisation
    published         \* the normalised date

vars == <<variant, pc, caller, doc, doc0, response, max_posts, posts, fetchExc,
          propagated, content, blog_section, updated_content, result, log, runs,
          prevPosts, prevDoc, inserted, raw, date_str, published>>

-----------------------------------------------------------------------------
(* Tokens *)

START == "<!-- BLOG-POST-LIST:START -->"
END == "<!-- BLOG-POST-LIST:END -->"
HEADING == "## Latest Blog Posts"
NL == "\n"
SP == " "
BS == "\\"
NO_POSTS_LINE == "- No blog posts available at the moment."
UNKNOWN_DATE == "Unknown date"
NO_TITLE == "No Title"
ELLIPSIS == "..."

\* str.strip() removes these from both ends
Whitespace == {SP, NL}

\* an absent XML element / attribute, and a present one
None == [has |-> FALSE, v |-> <<>>]
Some(x) == [has |-> TRUE, v |-> x]

Min(a, b) == IF a <= b THEN a ELSE b

RECURSIVE LStrip(_)
LStrip(s) ==
    IF s # <<>> /\ Head(s) \in Whitespace THEN LStrip(Tail(s)) ELSE s

RECURSIVE RStrip(_)
RStrip(s) ==
    IF s # <<>> /\ s[Len(s)] \in Whitespace
    THEN RStrip(SubSeq(s, 1, Len(s) - 1))
    ELSE s

\* str.strip()
Strip(s) == RStrip(LStrip(s))

\* sub in s  (Python's "in" on strings), for a two-token sub
Contains2(s, a, b) == \E i \in 1..(Len(s) - 1) : s[i] = a /\ s[i + 1] = b

\* str.replace(a b, ''): every occurrence, left to right
RECURSIVE Remove2(_, _, _)
Remove2(s, a, b) ==
    IF Len(s) < 2 THEN s
    ELSE IF s[1] = a /\ s[2] = b THEN Remove2(SubSeq(s, 3, Len(s)), a, b)
    ELSE <<Head(s)>> \o Remove2(Tail(s), a, b)

\* str.split('+')[0]: the text before the first '+'
RECURSIVE BeforePlus(_)
BeforePlus(s) ==
    IF s = <<>> \/ Head(s) = "+" THEN <<>>
    ELSE <<Head(s)>> \o BeforePlus(Tail(s))

-----------------------------------------------------------------------------
(* Date normalisation, update_blog.py lines 44-72 *)

Weekdays == {"Mon,"}
Dates == {"02 Jan 2006", "5 Jun 2024"}
Times == {"15:04:05"}

\* strftime("%B %d, %Y") of the date strptime read
Strftime(d) == IF d = "02 Jan 2006" THEN "January 02, 2006" ELSE "June 05, 2024"

\* a run of whitespace in the data matches one blank of a strptime format (\s+)
RECURSIVE Squeeze(_)
Squeeze(s) ==
    IF s = <<>> THEN <<>>
    ELSE IF Head(s) \in Whitespace
         THEN <<SP>> \o Squeeze(LStrip(s))
         ELSE <<Head(s)>> \o Squeeze(Tail(s))

\* datetime.strptime(s, fmt): Some(date) or None (ValueError); the whole text must match
Strptime(s, fmt) ==
    LET q == Squeeze(s) IN
    CASE fmt = "%a, %d %b %Y %H:%M:%S" ->
            IF Len(q) = 5 /\ q[1] \in Weekdays /\ q[2] = SP /\ q[3] \in Dates
               /\ q[4] = SP /\ q[5] \in Times
            THEN Some(q[3]) ELSE None
      [] fmt = "%d %b %Y %H:%M:%S" ->
            IF Len(q) = 3 /\ q[1] \in Dates /\ q[2] = SP /\ q[3] \in Times
            THEN Some(q[1]) ELSE None
      [] fmt = "%a, %d %b %Y" ->
            IF Len(q) = 3 /\ q[1] \in Weekdays /\ q[2] = SP /\ q[3] \in Dates
            THEN Some(q[3]) ELSE None

Formats == <<"%a, %d %b %Y %H:%M:%S", "%d %b %Y %H:%M:%S", "%a, %d %b %Y">>

\* lines 51-56: remove timezone info
StripTimezone(s) ==
    IF \E i \in 1..Len(s) : s[i] = "+" THEN Strip(BeforePlus(s))
    ELSE IF Contains2(s, SP, "GMT") THEN Strip(Remove2(s, SP, "GMT"))
    ELSE IF Contains2(s, SP, "UTC") THEN Strip(Remove2(s, SP, "UTC"))
    ELSE s

\* lines 59-65: the first format that parses
RECURSIVE TryFormats(_, _)
TryFormats(s, i) ==
    IF i > Len(Formats) THEN None
    ELSE IF Strptime(s, Formats[i]).has THEN Strptime(s, Formats[i])
    ELSE TryFormats(s, i + 1)

\* faulty variant of PublishedOf: the fallback is the timezone-stripped text
PublishedOfStripped(text) ==
    LET parsed == TryFormats(StripTimezone(Strip(text)), 1) IN
    IF parsed.has THEN <<Strftime(parsed.v)>> ELSE StripTimezone(Strip(text))

\* lines 59-69: published_date from the pubDate text (non-empty)
PublishedOf(text) ==
    LET parsed == TryFormats(StripTimezone(Strip(text)), 1) IN
    IF parsed.has THEN <<Strftime(parsed.v)>> ELSE Strip(text)

\* lines 45-72: pub is the pubDate element (None if the item has none)
NormalizeDate(pub) ==
    IF pub.has /\ pub.v # <<>> THEN PublishedOf(pub.v) ELSE <<UNKNOWN_DATE>>

-----------------------------------------------------------------------------
(* Summary clean-up, update_blog.py lines 75-82, update_blog_posts.py 52-63 *)

SUMMARY_MAX == 150

\* a whole markup tag, as  <[^>]+>  matches it
Tags == {"<p>", "</p>"}

\* re.sub(r'<[^>]+>', '', s).replace('\n', ' ').strip(), cut to 150 characters
\* (every text token of a description is one character)
CleanSummary(s) ==
    LET noTags == SelectSeq(s, LAMBDA t : t \notin Tags)
        oneLine == Strip([i \in 1..Len(noTags) |->
                            IF noTags[i] = NL THEN SP ELSE noTags[i]])
    IN  IF Len(oneLine) > SUMMARY_MAX
        THEN SubSeq(oneLine, 1, SUMMARY_MAX) \o <<ELLIPSIS>>
        ELSE oneLine

-----------------------------------------------------------------------------
(* The feed *)

MaxFeedLen == 3
MaxK == 3
MAIN_MAX_POSTS == 5

ExampleDate == <<"Mon,", SP, "02 Jan 2006", SP, "15:04:05", SP, "+", "0000">>

Item(t, l, d, s, pp, du) ==
    [title |-> t, link |-> l, pubDate |-> d, description |-> s,
     published_parsed |-> pp, dateutil |-> du]

\* the items a feed is made of.  published_parsed is what feedparser made of the
\* date (None: it could not), dateutil what dateutil's parser makes of it (None: it
\* raises); update_blog.py reads neither.
ItemPool ==
    { Item(Some(<<"A">>), Some(<<"a.html">>), Some(ExampleDate),
           Some(<<"<p>", "h", "</p>">>), Some("02 Jan 2006"), Some("02 Jan 2006")),
      Item(Some(<<"B">>), Some(<<"b.html">>), Some(<<SP, "not-a-date", NL>>),
           None, None, None),
      Item(Some(<<>>), Some(<<>>), None, Some(<<NL>>), None, None),
      Item(None, Some(<<"c.html">>), Some(ExampleDate), None, None, Some("02 Jan 2006")),
      Item(Some(<<"D">>), None, None, None, None, None),
      Item(None, None, None, Some(<<"h">>), None, None),
      Item(Some(<<BS, "1">>), Some(<<"e.html">>), None, None, None, None) }

RECURSIVE SeqsUpTo(_, _)
SeqsUpTo(S, n) ==
    IF n = 0 THEN {<<>>}
    ELSE LET shorter == SeqsUpTo(S, n - 1) IN
         shorter \cup {Append(q, x) : q \in {r \in shorter : Len(r) = n - 1}, x \in S}

\* what requests.get(rss_url, timeout=10) and raise_for_status end in, and the
\* items the body holds
ResponsesUpTo(n) ==
    [kind : {"ok", "malformed"}, items : SeqsUpTo(ItemPool, n)]
    \cup [kind : {"transport_error", "http_error"}, items : {<<>>}]

\* items[:max_posts], max_posts >= 0
Take(s, k) == SubSeq(s, 1, Min(k, Len(s)))

\* update_blog.py lines 41-90: the post of an item that has title and link
PostET(item) ==
    [title |-> IF item.title.v # <<>> THEN Strip(item.title.v) ELSE <<NO_TITLE>>,
     link |-> IF item.link.v # <<>> THEN Strip(item.link.v) ELSE <<>>,
     summary |-> IF item.description.has /\ item.description.v # <<>>
                 THEN CleanSummary(Strip(item.description.v)) ELSE <<>>,
     published |-> NormalizeDate(item.pubDate)]

\* update_blog.py line 39
Admitted(item) == item.title.has /\ item.link.has

\* faulty variant of LoopET: filter the whole feed, then cut to max_posts
LoopETFilterFirst(items, k) ==
    LET kept == SelectSeq(items, Admitted) IN
    [i \in 1..Min(k, Len(kept)) |-> PostET(kept[i])]

\* update_blog.py lines 32-92: the loop over items[:max_posts]
LoopET(items, k) ==
    LET kept == SelectSeq(Take(items, k), Admitted) IN
    [i \in 1..Len(kept) |-> PostET(kept[i])]

\* update_blog.py lines 17-92, the try body: [exc, posts]; exc is the class of the
\* exception that ends it, "none" if it returns
BodyET(resp, k) ==
    CASE resp.kind \in {"transport_error", "http_error"} ->
            [exc |-> "RequestException", posts |-> <<>>]
      [] resp.kind = "malformed" -> [exc |-> "ParseError", posts |-> <<>>]
      [] OTHER -> [exc |-> "none", posts |-> LoopET(resp.items, k)]

\* update_blog_posts.py lines 39-49
PublishedFP(entry) ==
    IF entry.published_parsed.has THEN <<Strftime(entry.published_parsed.v)>>
    ELSE IF entry.pubDate.has
         THEN IF entry.dateutil.has THEN <<Strftime(entry.dateutil.v)>>
              ELSE entry.pubDate.v
         ELSE <<UNKNOWN_DATE>>

\* update_blog_posts.py lines 39-70: the post of an entry that has title and link
PostFP(entry) ==
    [title |-> entry.title.v,
     link |-> entry.link.v,
     summary |-> IF entry.description.has THEN CleanSummary(entry.description.v)
                 ELSE <<>>,
     published |-> PublishedFP(entry)]

\* feedparser.parse(response.content).entries: the strict parse of a well-formed
\* body gives every item; of a malformed one the lenient parser gives those it
\* could recover, a prefix of them
FeedparserEntries(resp) ==
    IF resp.kind = "ok" THEN {resp.items}
    ELSE {SubSeq(resp.items, 1, n) : n \in 0..Len(resp.items)}

\* update_blog_posts.py lines 25-73, the try body for the entries feedparser gave:
\* entry.title or entry.link of an entry without one raises AttributeError
BodyFP(resp, entries, k) ==
    IF resp.kind \in {"transport_error", "http_error"}
    THEN [exc |-> "RequestException", posts |-> <<>>]
    ELSE LET cut == Take(entries, k) IN
         IF \E i \in 1..Len(cut) : ~Admitted(cut[i])
         THEN [exc |-> "AttributeError", posts |-> <<>>]
         ELSE [exc |-> "none", posts |-> [i \in 1..Len(cut) |-> PostFP(cut[i])]]

\* faulty variant of Caught: no catch-all handler
CaughtNamedOnly(exc) == exc \in {"RequestException", "ParseError"}

\* the except clauses (update_blog.py 94-102, update_blog_posts.py 75-80): both
\* end in  except Exception
Caught(exc) == exc # "none"

\* fetch_latest_blog_posts: the try body under its handlers
Handle(body) ==
    IF body.exc = "none" THEN [posts |-> body.posts, exc |-> "none", propagated |-> FALSE]
    ELSE IF Caught(body.exc) THEN [posts |-> <<>>, exc |-> body.exc, propagated |-> FALSE]
    ELSE [posts |-> <<>>, exc |-> body.exc, propagated |-> TRUE]

\* the outcomes of fetch_latest_blog_posts(rss_url, max_posts=k)
FetchOutcomes(v, resp, k) ==
    IF v = "strict" THEN {Handle(BodyET(resp, k))}
    ELSE {Handle(BodyFP(resp, e, k)) : e \in FeedparserEntries(resp)}

-----------------------------------------------------------------------------
(* Rendering and splicing, update_readme_with_blog_posts *)

\* update_blog.py lines 118-121, update_blog_posts.py lines 100-103
RenderPost(post) ==
    <<"- [">> \o post.title \o <<"](">> \o post.link \o <<") - *">>
    \o post.published \o <<"*", NL>>
    \o (IF Strip(post.summary) # <<>>
        THEN <<"  > ">> \o Strip(post.summary) \o <<NL>> ELSE <<>>)
    \o <<NL>>

RECURSIVE RenderPosts(_)
RenderPosts(ps) ==
    IF ps = <<>> THEN <<>> ELSE RenderPost(Head(ps)) \o RenderPosts(Tail(ps))

\* update_blog.py lines 115-126, update_blog_posts.py lines 97-108
Render(ps) ==
    IF ps # <<>> THEN <<START, NL>> \o RenderPosts(ps) \o <<END>>
    ELSE <<START, NL, NO_POSTS_LINE, NL, END>>

\* the tokens that may follow a backslash in a replacement template: a digit is a
\* group reference, an ASCII letter that is no escape is an error
TemplateDigits == {"1"}
TemplateLetters == {"A", "B", "D", "x"}

\* re's expansion of a replacement template with `groups` groups, the first one
\* having matched g1: [ok, out]; ok = FALSE is re.error.  A backslash before
\* anything but a backslash, a digit or a letter stays as it is.
RECURSIVE ExpandTemplate(_, _, _)
ExpandTemplate(t, groups, g1) ==
    IF t = <<>> THEN [ok |-> TRUE, out |-> <<>>]
    ELSE IF Head(t) # BS
    THEN LET rest == ExpandTemplate(Tail(t), groups, g1) IN
         [ok |-> rest.ok, out |-> <<Head(t)>> \o rest.out]
    ELSE IF Len(t) = 1 THEN [ok |-> FALSE, out |-> <<>>]
    ELSE IF t[2] = BS
    THEN LET rest == ExpandTemplate(SubSeq(t, 3, Len(t)), groups, g1) IN
         [ok |-> rest.ok, out |-> <<BS>> \o rest.out]
    ELSE IF t[2] \in TemplateDigits
    THEN IF groups < 1 THEN [ok |-> FALSE, out |-> <<>>]
         ELSE LET rest == ExpandTemplate(SubSeq(t, 3, Len(t)), groups, g1) IN
              [ok |-> rest.ok, out |-> g1 \o rest.out]
    ELSE IF t[2] \in TemplateLetters THEN [ok |-> FALSE, out |-> <<>>]
    ELSE LET rest == ExpandTemplate(Tail(t), groups, g1) IN
         [ok |-> rest.ok, out |-> <<BS>> \o rest.out]

\* the place of the first x in s after place i (0: none)
RECURSIVE FirstAfter(_, _, _)
FirstAfter(s, x, i) ==
    IF i >= Len(s) THEN 0
    ELSE IF s[i + 1] = x THEN i + 1
    ELSE FirstAfter(s, x, i + 1)

\* re.sub(r'START.*?END', repl, s, flags=re.DOTALL) with repl already expanded:
\* every non-overlapping match, leftmost first, each the shortest from its start
RECURSIVE SubMarkers(_, _)
SubMarkers(s, repl) ==
    IF s = <<>> THEN <<>>
    ELSE IF Head(s) = START /\ FirstAfter(s, END, 1) # 0
    THEN repl \o SubMarkers(SubSeq(s, FirstAfter(s, END, 1) + 1, Len(s)), repl)
    ELSE <<Head(s)>> \o SubMarkers(Tail(s), repl)

\* re.sub(r'(## Latest Blog Posts.*?)\n', tpl, s, flags=re.DOTALL): every match is
\* replaced by tpl expanded with group 1 = the match without its newline
RECURSIVE SubHeading(_, _)
SubHeading(s, tpl) ==
    IF s = <<>> THEN <<>>
    ELSE IF Head(s) = HEADING /\ FirstAfter(s, NL, 1) # 0
    THEN LET j == FirstAfter(s, NL, 1) IN
         ExpandTemplate(tpl, 1, SubSeq(s, 1, j - 1)).out
         \o SubHeading(SubSeq(s, j + 1, Len(s)), tpl)
    ELSE <<Head(s)>> \o SubHeading(Tail(s), tpl)

\* "## Latest Blog Posts" in content
HasHeading(s) == \E i \in 1..Len(s) : s[i] = HEADING

\* the number of matches of the marker pattern in s
RECURSIVE CountPairs(_)
CountPairs(s) ==
    IF s = <<>> THEN 0
    ELSE IF Head(s) = START /\ FirstAfter(s, END, 1) # 0
    THEN 1 + CountPairs(SubSeq(s, FirstAfter(s, END, 1) + 1, Len(s)))
    ELSE CountPairs(Tail(s))

-----------------------------------------------------------------------------
(* Bounds and input sets *)

MaxDocLen == 4
MaxRuns == 2
MaxMainFeed == 1
MaxPad == 1
MaxTz == 2

Variants == {"strict", "permissive"}

\* README.md before the first run: any text over these tokens, or no file
DocTokens == {START, END, HEADING, NL, "x"}
Docs == [exists : {TRUE}, text : SeqsUpTo(DocTokens, MaxDocLen)]
        \cup {[exists |-> FALSE, text |-> <<>>]}

\* post lists handed to update_readme_with_blog_posts directly
PostA == [title |-> <<"A">>, link |-> <<"a.html">>, summary |-> <<"h">>,
          published |-> <<"January 02, 2006">>]
PostB == [title |-> <<"B">>, link |-> <<>>, summary |-> <<SP>>,
          published |-> <<UNKNOWN_DATE>>]
PostEsc == [title |-> <<"A", BS, BS>>, link |-> <<"a.html">>, summary |-> <<>>,
            published |-> <<UNKNOWN_DATE>>]
PostRef == [title |-> <<BS, "1">>, link |-> <<"e.html">>, summary |-> <<>>,
            published |-> <<UNKNOWN_DATE>>]
PostLists == {<<>>, <<PostA>>, <<PostB, PostA>>, <<PostEsc>>, <<PostRef>>}

\* pubDate texts: padding, a body, up to MaxTz timezone parts, padding
RECURSIVE Pad(_)
Pad(n) == IF n = 0 THEN <<>> ELSE <<SP>> \o Pad(n - 1)

DateBodies ==
    { <<"Mon,", SP, "02 Jan 2006", SP, "15:04:05">>,
      <<"Mon,", SP, SP, "5 Jun 2024", NL, "15:04:05">>,
      <<"5 Jun 2024", SP, "15:04:05">>,
      <<"Mon,", SP, "02 Jan 2006">>,
      <<"Mon,", SP, "GMT", SP, "02 Jan 2006">>,
      <<"02 Jan 2006">>,
      <<"not-a-date">>,
      <<>> }
TzParts == { <<SP, "+", "0000">>, <<SP, "GMT">>, <<SP, "UTC">>, <<"+", "1">>,
             <<SP, "-0500">> }

RECURSIVE Flatten(_)
Flatten(ss) == IF ss = <<>> THEN <<>> ELSE Head(ss) \o Flatten(Tail(ss))

RawDates ==
    { Pad(l) \o b \o Flatten(tz) \o Pad(r) :
        l \in 0..MaxPad, b \in DateBodies, tz \in SeqsUpTo(TzParts, MaxTz),
        r \in 0..MaxPad }

NoDoc == [exists |-> FALSE, text |-> <<>>]
NoResponse == [kind |-> "ok", items |-> <<>>]

-----------------------------------------------------------------------------
(* Initial states *)

\* the parts of the state a specification does not use
IdleFetch ==
    /\ response = NoResponse /\ max_posts = MAIN_MAX_POSTS
    /\ fetchExc = "none" /\ propagated = FALSE

IdleUpdate ==
    /\ caller = "direct" /\ doc = NoDoc /\ doc0 = NoDoc
    /\ content = <<>> /\ blog_section = <<>> /\ updated_content = <<>>
    /\ result = "None" /\ log = <<>> /\ runs = 0
    /\ prevPosts = <<>> /\ prevDoc = NoDoc /\ inserted = 0

IdleDate == raw = None /\ date_str = <<>> /\ published = <<>>

\* a run of main() is about to start
Init ==
    /\ variant \in Variants
    /\ pc = "m_start"
    /\ caller = "main"
    /\ doc \in Docs /\ doc0 = doc
    /\ posts = <<>>
    /\ content = <<>> /\ blog_section = <<>> /\ updated_content = <<>>
    /\ result = "None" /\ log = <<>> /\ runs = 0
    /\ prevPosts = <<>> /\ prevDoc = doc /\ inserted = 0
    /\ IdleFetch /\ IdleDate

\* update_readme_with_blog_posts is about to be called with a post list
InitUpdate ==
    /\ variant \in Variants
    /\ pc = "idle"
    /\ caller = "direct"
    /\ doc \in Docs /\ doc0 = doc
    /\ posts = <<>>
    /\ content = <<>> /\ blog_section = <<>> /\ updated_content = <<>>
    /\ result = "None" /\ log = <<>> /\ runs = 0
    /\ prevPosts = <<>> /\ prevDoc = doc /\ inserted = 0
    /\ IdleFetch /\ IdleDate

\* fetch_latest_blog_posts is about to be called
InitFetch ==
    /\ variant \in Variants
    /\ pc = "f_call"
    /\ response \in ResponsesUpTo(MaxFeedLen)
    /\ max_posts \in 0..MaxK
    /\ posts = <<>> /\ fetchExc = "none" /\ propagated = FALSE
    /\ IdleUpdate /\ IdleDate

\* the date of one item is about to be normalised (update_blog.py)
InitDate ==
    /\ variant = "strict"
    /\ pc = "d_call"
    /\ raw \in {None} \cup {Some(r) : r \in RawDates}
    /\ date_str = <<>> /\ published = <<>>
    /\ posts = <<>>
    /\ IdleFetch /\ IdleUpdate

-----------------------------------------------------------------------------
(* fetch_latest_blog_posts and the date normalisation as calls *)

FetchCall ==
    /\ pc = "f_call"
    /\ \E o \in FetchOutcomes(variant, response, max_posts) :
          /\ posts' = o.posts
          /\ fetchExc' = o.exc
          /\ propagated' = o.propagated
    /\ pc' = "f_ret"
    /\ UNCHANGED <<variant, caller, doc, doc0, response, max_posts, content,
                   blog_section, updated_content, result, log, runs, prevPosts,
                   prevDoc, inserted, raw, date_str, published>>

DateCall ==
    /\ pc = "d_call"
    /\ date_str' = IF raw.has /\ raw.v # <<>> THEN StripTimezone(Strip(raw.v)) ELSE <<>>
    /\ published' = NormalizeDate(raw)
    /\ pc' = "d_ret"
    /\ UNCHANGED <<variant, caller, doc, doc0, response, max_posts, posts, fetchExc,
                   propagated, content, blog_section, updated_content, result, log,
                   runs, prevPosts, prevDoc, inserted, raw>>

-----------------------------------------------------------------------------
(* update_readme_with_blog_posts, statement by statement *)

\* what the function returns: update_blog.py a bool, update_blog_posts.py nothing
Failure == IF variant = "strict" THEN "False" ELSE "None"
Success == IF variant = "strict" THEN "True" ELSE "None"

fetchVars == <<response, max_posts, fetchExc, propagated>>
dateVars == <<raw, date_str, published>>

\* a direct call with a post list
UpdateCall ==
    /\ pc = "idle"
    /\ runs < MaxRuns
    /\ \E ps \in PostLists : posts' = ps
    /\ prevPosts' = posts
    /\ prevDoc' = doc
    /\ runs' = runs + 1
    /\ log' = <<>>
    /\ pc' = "u_read"
    /\ UNCHANGED <<variant, caller, doc, doc0, content, blog_section,
                   updated_content, result, inserted>>
    /\ UNCHANGED fetchVars /\ UNCHANGED dateVars

\* open(readme_path, 'r') and file.read(); FileNotFoundError ends the call
ReadDoc ==
    /\ pc = "u_read"
    /\ IF doc.exists
       THEN /\ content' = doc.text
            /\ log' = Append(log, "read")
            /\ pc' = "u_render"
            /\ UNCHANGED result
       ELSE /\ result' = Failure
            /\ pc' = "u_ret"
            /\ UNCHANGED <<content, log>>
    /\ UNCHANGED <<variant, caller, doc, doc0, posts, blog_section, updated_content,
                   runs, prevPosts, prevDoc, inserted>>
    /\ UNCHANGED fetchVars /\ UNCHANGED dateVars

\* blog_section is built
RenderBlock ==
    /\ pc = "u_render"
    /\ blog_section' = Render(posts)
    /\ log' = Append(log, "render")
    /\ pc' = "u_splice"
    /\ UNCHANGED <<variant, caller, doc, doc0, posts, content, updated_content,
                   result, runs, prevPosts, prevDoc, inserted>>
    /\ UNCHANGED fetchVars /\ UNCHANGED dateVars

\* faulty variant of AfterSplice: the strict variant writes whatever the splice gave
AfterSpliceAlwaysWrite(old, new) == "u_write"

\* where the call goes after the first re.sub: update_blog.py lines 133-135,
\* update_blog_posts.py line 115
AfterSplice(old, new) ==
    IF old # new THEN "u_write"
    ELSE IF variant = "strict" THEN "u_ret" ELSE "u_add"

\* updated_content = re.sub(pattern, blog_section, content, flags=re.DOTALL); a
\* blog_section that is no valid template raises re.error, which except Exception
\* catches
Splice ==
    /\ pc = "u_splice"
    /\ LET e == ExpandTemplate(blog_section, 0, <<>>) IN
       IF e.ok
       THEN /\ updated_content' = SubMarkers(content, e.out)
            /\ log' = Append(log, "splice")
            /\ pc' = AfterSplice(content, updated_content')
            /\ result' = IF pc' = "u_ret" THEN Failure ELSE result
       ELSE /\ result' = Failure
            /\ pc' = "u_ret"
            /\ UNCHANGED <<updated_content, log>>
    /\ UNCHANGED <<variant, caller, doc, doc0, posts, content, blog_section, runs,
                   prevPosts, prevDoc, inserted>>
    /\ UNCHANGED fetchVars /\ UNCHANGED dateVars

\* the template of the second re.sub:  f'\\1\n\n{blog_section}\n'
HeadingTemplate(block) == <<BS, "1", NL, NL>> \o block \o <<NL>>

\* update_blog_posts.py lines 116-127: "markers not found", add the section
AddSection ==
    /\ pc = "u_add"
    /\ updated_content' =
          IF HasHeading(content)
          THEN SubHeading(content, HeadingTemplate(blog_section))
          ELSE content \o <<NL, NL, HEADING, NL, NL>> \o blog_section \o <<NL>>
    /\ inserted' = IF updated_content' # content THEN inserted + 1 ELSE inserted
    /\ pc' = "u_write"
    /\ UNCHANGED <<variant, caller, doc, doc0, posts, content, blog_section, result,
                   log, runs, prevPosts, prevDoc>>
    /\ UNCHANGED fetchVars /\ UNCHANGED dateVars

\* open(readme_path, 'w') and file.write(updated_content)
WriteDoc ==
    /\ pc = "u_write"
    /\ doc' = [exists |-> TRUE, text |-> updated_content]
    /\ log' = Append(log, "write")
    /\ result' = Success
    /\ pc' = "u_ret"
    /\ UNCHANGED <<variant, caller, doc0, posts, content, blog_section,
                   updated_content, runs, prevPosts, prevDoc, inserted>>
    /\ UNCHANGED fetchVars /\ UNCHANGED dateVars

\* the function returns to its caller
Return ==
    /\ pc = "u_ret"
    /\ pc' = IF caller = "main" THEN "m_updated" ELSE "idle"
    /\ UNCHANGED <<variant, caller, doc, doc0, posts, content, blog_section,
                   updated_content, result, log, runs, prevPosts, prevDoc, inserted>>
    /\ UNCHANGED fetchVars /\ UNCHANGED dateVars

-----------------------------------------------------------------------------
(* main() *)

\* posts = fetch_latest_blog_posts(RSS_URL, max_posts=5)
MainFetch ==
    /\ pc = "m_start"
    /\ runs < MaxRuns
    /\ \E r \in ResponsesUpTo(MaxMainFeed) :
       \E o \in FetchOutcomes(variant, r, MAIN_MAX_POSTS) :
          /\ posts' = o.posts
          /\ fetchExc' = o.exc
          /\ propagated' = o.propagated
          /\ pc' = IF o.propagated THEN "m_crashed" ELSE "m_fetched"
    /\ prevPosts' = posts
    /\ prevDoc' = doc
    /\ runs' = runs + 1
    /\ log' = <<"fetch">>
    /\ result' = "None"
    /\ UNCHANGED <<variant, caller, doc, doc0, response, max_posts, content,
                   blog_section, updated_content, inserted>>
    /\ UNCHANGED dateVars

\* whether main calls update_readme_with_blog_posts: update_blog.py lines 162-168
\* only with posts, update_blog_posts.py line 159 always
CallsUpdate(ps) == variant = "permissive" \/ ps # <<>>

MainDispatch ==
    /\ pc = "m_fetched"
    /\ pc' = IF CallsUpdate(posts) THEN "u_read" ELSE "m_done"
    /\ UNCHANGED <<variant, caller, doc, doc0, posts, content, blog_section,
                   updated_content, result, log, runs, prevPosts, prevDoc, inserted>>
    /\ UNCHANGED fetchVars /\ UNCHANGED dateVars

\* the closing prints
MainFinish ==
    /\ pc = "m_updated"
    /\ pc' = "m_done"
    /\ UNCHANGED <<variant, caller, doc, doc0, posts, content, blog_section,
                   updated_content, result, log, runs, prevPosts, prevDoc, inserted>>
    /\ UNCHANGED fetchVars /\ UNCHANGED dateVars

\* the scheduler starts the script again
MainAgain ==
    /\ pc = "m_done"
    /\ runs < MaxRuns
    /\ pc' = "m_start"
    /\ UNCHANGED <<variant, caller, doc, doc0, posts, content, blog_section,
                   updated_content, result, log, runs, prevPosts, prevDoc, inserted>>
    /\ UNCHANGED fetchVars /\ UNCHANGED dateVars

-----------------------------------------------------------------------------
(* Specifications *)

UpdateSteps == ReadDoc \/ RenderBlock \/ Splice \/ AddSection \/ WriteDoc \/ Return

Next == MainFetch \/ MainDispatch \/ MainFinish \/ MainAgain \/ UpdateSteps

NextUpdate == UpdateCall \/ UpdateSteps

\* the first call only
FirstCall == runs = 0 /\ UpdateCall

NextCall == FirstCall \/ UpdateSteps

NextFetch == FetchCall

NextDate == DateCall

\* runs of main()
Spec == Init /\ [][Next]_vars

\* direct calls of update_readme_with_blog_posts
SpecUpdate == InitUpdate /\ [][NextUpdate]_vars

\* one direct call of update_readme_with_blog_posts
SpecCall == InitUpdate /\ [][NextCall]_vars

\* one call of fetch_latest_blog_posts
SpecFetch == InitFetch /\ [][NextFetch]_vars

\* one date normalisation
SpecDate == InitDate /\ [][NextDate]_vars

-----------------------------------------------------------------------------
(* Properties *)

Wrote == \E n \in 1..Len(log) : log[n] = "write"
Count(ev) == Cardinality({n \in 1..Len(log) : log[n] = ev})

\* a start marker with an end marker somewhere after it
HasPair(s) == \E i, j \in 1..Len(s) : i < j /\ s[i] = START /\ s[j] = END

\* the first start marker that has an end marker after it, and that end marker
FirstStart(s) ==
    CHOOSE i \in 1..Len(s) :
        /\ s[i] = START /\ \E j \in (i + 1)..Len(s) : s[j] = END
        /\ \A h \in 1..(i - 1) : ~(s[h] = START /\ \E j \in (h + 1)..Len(s) : s[j] = END)
FirstEnd(s) ==
    CHOOSE j \in (FirstStart(s) + 1)..Len(s) :
        s[j] = END /\ \A h \in (FirstStart(s) + 1)..(j - 1) : s[h] # END

\* the places where block occurs in s
Occurrences(s, block) ==
    {i \in 1..(Len(s) - Len(block) + 1) : SubSeq(s, i, i + Len(block) - 1) = block}

\* a direct call has returned
Returned == pc = "idle" /\ runs >= 1

\* no backslash in the posts' text: the block is written as it was rendered
PlainPosts == \A n \in 1..Len(blog_section) : blog_section[n] # BS

\* the places of the heading in s
HeadingPlaces(s) == {i \in 1..Len(s) : s[i] = HEADING}

\* every marker of s belongs to a start-end pair
Paired(s) ==
    /\ Cardinality({i \in 1..Len(s) : s[i] = START}) = CountPairs(s)
    /\ Cardinality({i \in 1..Len(s) : s[i] = END}) = CountPairs(s)

\* C1: a call on a document with a marker pair that writes the document replaces
\* the span from the first start marker to the first end marker after it by the
\* rendered block and leaves every token before and after that span as it was
\* (stated for posts without backslashes, whose block re.sub inserts as it is)
C1_OnlyFirstSpanReplaced ==
    (Returned /\ prevDoc.exists /\ HasPair(prevDoc.text) /\ Wrote /\ PlainPosts) =>
        doc.text = SubSeq(prevDoc.text, 1, FirstStart(prevDoc.text) - 1)
                   \o blog_section
                   \o SubSeq(prevDoc.text, FirstEnd(prevDoc.text) + 1, Len(prevDoc.text))

\* C2: a second call in succession with the same posts leaves the document as the
\* first call left it, and (update_blog.py) returns False without writing
\* (stated for posts without backslashes and a first document whose markers are
\* all paired)
C2_SpliceIdempotent ==
    (Returned /\ runs >= 2 /\ posts = prevPosts /\ PlainPosts /\ Paired(doc0.text)) =>
        /\ doc = prevDoc
        /\ variant = "strict" => (result = "False" /\ ~Wrote)

\* the n-th smallest element of a set of numbers
Nth(S, n) == CHOOSE i \in S : Cardinality({j \in S : j < i}) = n - 1

\* the places among the first max_posts items that hold a title and a link
AdmittedPlaces ==
    {i \in 1..Min(Len(response.items), max_posts) :
        response.items[i].title.has /\ response.items[i].link.has}

\* C3 as stated: a well-formed feed gives min(N_eligible, k) posts, N_eligible
\* counting every item of the feed that has a title or a link
C3_CountIsMinEligibleK ==
    (pc = "f_ret" /\ response.kind = "ok") =>
        Len(posts) = Min(Cardinality({i \in 1..Len(response.items) :
                                         response.items[i].title.has
                                         \/ response.items[i].link.has}),
                         max_posts)

\* C3 amended: update_blog.py gives, in feed order, the posts of those of the
\* first max_posts items that hold both title and link; update_blog_posts.py gives
\* the posts of the first max_posts items if each holds both, else none
C3_FirstKThenFilter ==
    (pc = "f_ret" /\ response.kind = "ok") =>
        IF variant = "strict"
        THEN /\ Len(posts) = Cardinality(AdmittedPlaces)
             /\ \A n \in 1..Len(posts) :
                   posts[n] = PostET(response.items[Nth(AdmittedPlaces, n)])
        ELSE IF Cardinality(AdmittedPlaces) = Min(Len(response.items), max_posts)
        THEN /\ Len(posts) = Min(Len(response.items), max_posts)
             /\ \A n \in 1..Len(posts) : posts[n] = PostFP(response.items[n])
        ELSE posts = <<>>

\* C3 witness: update_blog.py skipped an item among the first max_posts while an
\* admissible item lay beyond them
C3_Witness ==
    /\ pc = "f_ret" /\ response.kind = "ok" /\ variant = "strict"
    /\ max_posts = 2 /\ Len(response.items) = 3
    /\ ~response.items[1].title.has
    /\ response.items[2].title.has /\ response.items[2].link.has
    /\ response.items[3].title.has /\ response.items[3].link.has
    /\ Len(posts) = 1

C5_StrictNoMarkersNoChange ==
    (variant = "strict" /\ runs >= 1 /\ prevDoc.exists /\ ~HasPair(prevDoc.text)) =>
        /\ doc = prevDoc
        /\ ~Wrote
        /\ pc = "idle" => result = "False"

\* C5 witness: such a call, with posts and with both markers in the wrong order,
\* has returned False
C5_Witness ==
    /\ variant = "strict" /\ Returned /\ posts # <<>>
    /\ prevDoc.exists /\ prevDoc.text = <<END, "x", START>>
    /\ result = "False" /\ doc = prevDoc

\* the text between a heading and the block after it: the rest of the heading's
\* line, then line ends only
RECURSIVE RestOfLineThenBlank(_)
RestOfLineThenBlank(s) ==
    IF s = <<>> THEN TRUE
    ELSE IF Head(s) = NL THEN \A n \in 1..Len(s) : s[n] = NL
    ELSE Head(s) \notin {START, END, HEADING} /\ RestOfLineThenBlank(Tail(s))

\* C6: update_blog_posts.py, called on a document without a marker pair: with the
\* heading in it, the written document holds the rendered block exactly once,
\* directly after the heading; without, heading and block are appended
\* (stated for posts without backslashes and at most one heading in the text)
C6_BlockOnceAfterHeading ==
    (/\ variant = "permissive" /\ Returned /\ PlainPosts
     /\ prevDoc.exists /\ ~HasPair(prevDoc.text)
     /\ Cardinality(HeadingPlaces(prevDoc.text)) <= 1) =>
        IF HasHeading(prevDoc.text)
        THEN /\ Cardinality(Occurrences(doc.text, blog_section)) = 1
             /\ \E h \in 1..Len(doc.text) : \E b \in Occurrences(doc.text, blog_section) :
                   /\ doc.text[h] = HEADING /\ h < b
                   /\ RestOfLineThenBlank(SubSeq(doc.text, h + 1, b - 1))
        ELSE doc.text = prevDoc.text \o <<NL, NL, HEADING, NL, NL>>
                        \o blog_section \o <<NL>>

\* C7: the block of an empty post list is the start marker, the "no posts" line
\* and the end marker, and a run of main whose fetch gave no post leaves that
\* block in the document's managed region
C7_EmptyFeedBlockInRegion ==
    /\ Render(<<>>) = <<START, NL, NO_POSTS_LINE, NL, END>>
    /\ (pc = "m_done" /\ posts = <<>> /\ prevDoc.exists /\ HasPair(prevDoc.text)) =>
          SubSeq(doc.text, FirstStart(doc.text), FirstEnd(doc.text)) = Render(<<>>)

\* the events of a run are in the order of `order`, each at most once
RECURSIVE InOrder(_, _)
InOrder(l, order) ==
    IF l = <<>> THEN TRUE
    ELSE IF order = <<>> THEN FALSE
    ELSE IF Head(l) = Head(order) THEN InOrder(Tail(l), Tail(order))
    ELSE InOrder(l, Tail(order))

\* the events of the log other than ev
Without(ev) == SelectSeq(log, LAMBDA e : e # ev)

\* C9: a run of main fetches once, then renders and reads, then splices, then
\* writes, each at most once, and writes only a text that differs from the text it
\* read (rendering being pure, its place relative to the read is left open)
C9_RunOrder ==
    runs >= 1 =>
        /\ Count("fetch") = 1 /\ log[1] = "fetch"
        /\ InOrder(Without("render"), <<"fetch", "read", "splice", "write">>)
        /\ InOrder(Without("read"), <<"fetch", "render", "splice", "write">>)
        /\ Wrote => (doc.text # content)

\* C10: from a document with at most one marker pair, no sequence of calls leaves
\* more than one pair, none removes a pair that is there, and the no-marker
\* branch adds a region at most once
\* (stated for posts without backslashes and at most one heading in the text)
C10_AtMostOneRegion ==
    (/\ pc = "idle" /\ doc0.exists /\ CountPairs(doc0.text) <= 1
     /\ Cardinality(HeadingPlaces(doc0.text)) <= 1
     /\ \A n \in 1..Len(doc.text) : doc.text[n] # BS) =>
        /\ CountPairs(doc.text) <= 1
        /\ CountPairs(prevDoc.text) >= 1 => CountPairs(doc.text) >= 1
        /\ inserted <= 1

\* the results of applying none or one of the three timezone rules to text t
OneRuleResults(t) ==
    {t, Strip(BeforePlus(t)), Strip(Remove2(t, SP, "GMT")), Strip(Remove2(t, SP, "UTC"))}

\* the date the first matching format reads from s (None: no format matches)
FirstMatch(s) ==
    IF \E n \in 1..3 : Strptime(s, Formats[n]).has
    THEN Strptime(s, Formats[CHOOSE n \in 1..3 :
                                 /\ Strptime(s, Formats[n]).has
                                 /\ \A m \in 1..(n - 1) : ~Strptime(s, Formats[m]).has])
    ELSE None

\* the parts of C8 that need no amendment
C8_Common ==
    /\ ~raw.has => published = <<UNKNOWN_DATE>>
    /\ (raw.has /\ raw.v # <<>>) =>
          /\ date_str \in OneRuleResults(Strip(raw.v))
          /\ FirstMatch(date_str).has => published = <<Strftime(FirstMatch(date_str).v)>>
    /\ raw = Some(ExampleDate) => published = <<"January 02, 2006">>
    /\ raw = Some(<<"not-a-date">>) => published = <<"not-a-date">>

\* C8 as stated: at most one stripping rule, the first matching format gives
\* "Month DD, YYYY", no match gives the raw date string unchanged, no date field
\* gives the placeholder
C8_FallbackIsRawText ==
    pc = "d_ret" =>
        /\ C8_Common
        /\ (raw.has /\ ~FirstMatch(date_str).has) => published = raw.v

\* C8 amended: no match gives the raw date string without its leading and
\* trailing whitespace (an empty pubDate gives the placeholder)
C8_FallbackIsTrimmedText ==
    pc = "d_ret" =>
        /\ C8_Common
        /\ (raw.has /\ raw.v # <<>> /\ ~FirstMatch(date_str).has) =>
              published = Strip(raw.v)
        /\ (raw.has /\ raw.v = <<>>) => published = <<UNKNOWN_DATE>>

\* C8 witness: a padded date with a zone no format reads fell back to the trimmed
\* text, not to the text the timezone rule left
C8_Witness ==
    /\ pc = "d_ret"
    /\ raw = Some(<<SP, "Mon,", SP, "02 Jan 2006", SP, "15:04:05", SP, "GMT", "+", "1", SP>>)
    /\ date_str = <<"Mon,", SP, "02 Jan 2006", SP, "15:04:05", SP, "GMT">>
    /\ published = <<"Mon,", SP, "02 Jan 2006", SP, "15:04:05", SP, "GMT", "+", "1">>

====
